---- MODULE Spec2Model ----
(***************************************************************************)
(* A model of qiqc/preprocessors/normalizer.pyx: the two replacer classes  *)
(* (StringReplacer, RegExpReplacer), the rule sets built on them           *)
(* (PunctSpacer, NumberReplacer, MisspellReplacer) and unidecode_weak with *)
(* its module-level Cache.                                                 *)
(*                                                                         *)
(* A Python str is a sequence of codepoints (ord of each character).       *)
(***************************************************************************)
EXTENDS Integers, Sequences, FiniteSets, TLC

VARIABLES
    cls,      \* class of the constructed replacer, "none" when there is none
    rule,     \* self.rule of the replacer, as the ordered list of its items
    arg,      \* the argument of __call__
    x,        \* the local x of __call__, which the loop rewrites
    iter,     \* the loop of __call__: how many rules it is through
    out,      \* the value __call__ returned
    pc,       \* "ready" before the call, "loop" in it, "done" after it
    modules,  \* the unidecode.xNNN table resources: section -> kind of module
    Cache,    \* the module-level dict Cache: section -> table or None
    loads,    \* how many times __import__ ran for each section
    string,   \* the argument of the last unidecode_weak call
    retval,   \* the string the last unidecode_weak call returned
    raised,   \* whether an exception left unidecode_weak
    calls     \* the concurrent callers: each one's argument, locals and position

vars == <<cls, rule, arg, x, iter, out, pc, modules, Cache, loads, string, retval, raised,
          calls>>

--------------------------------------------------------------------------------
(* Bounds of the model. *)

\* Longest argument of a StringReplacer call on a generic rule set.
MaxLen == 3
\* Most rules of a generic StringReplacer rule set.
MaxRules == 2
\* Longest argument of a PunctSpacer call.
MaxPunctLen == 4
\* Longest argument of a RegExpReplacer call.
MaxReLen == 6
\* Longest argument of an unidecode_weak call.
MaxUniLen == 2
\* Longest argument of each of two concurrent unidecode_weak calls.
MaxConcLen == 1

--------------------------------------------------------------------------------
(* Strings. *)

\* All sequences over S of length lo..hi.
Strings(S, lo, hi) == UNION {[1..n -> S] : n \in lo..hi}

\* k in x
Contains(xs, k) ==
    \E i \in 1..(Len(xs) - Len(k) + 1) : SubSeq(xs, i, i + Len(k) - 1) = k

RECURSIVE Interleave(_, _)
\* x.replace('', new): new before every character and at the end.
Interleave(xs, new) ==
    IF xs = <<>> THEN new
    ELSE new \o <<Head(xs)>> \o Interleave(Tail(xs), new)

RECURSIVE ReplaceScan(_, _, _)
\* The scan of str.replace for a non-empty old: occurrences are found from
\* the left and do not overlap.
ReplaceScan(xs, old, new) ==
    IF Len(xs) < Len(old) THEN xs
    ELSE IF SubSeq(xs, 1, Len(old)) = old
         THEN new \o ReplaceScan(SubSeq(xs, Len(old) + 1, Len(xs)), old, new)
         ELSE <<Head(xs)>> \o ReplaceScan(Tail(xs), old, new)

\* x.replace(old, new, 1): a replace that stops after the first occurrence.
ReplaceFirst(xs, old, new) ==
    IF ~Contains(xs, old) THEN xs
    ELSE LET i == CHOOSE j \in 1..Len(xs) :
                    /\ SubSeq(xs, j, j + Len(old) - 1) = old
                    /\ \A h \in 1..(j - 1) : SubSeq(xs, h, h + Len(old) - 1) # old
         IN  SubSeq(xs, 1, i - 1) \o new \o SubSeq(xs, i + Len(old), Len(xs))

\* x.replace(old, new)
Replace(xs, old, new) ==
    IF old = <<>> THEN Interleave(xs, new) ELSE ReplaceScan(xs, old, new)

--------------------------------------------------------------------------------
(* StringReplacer *)

\* One item of a rule dict.
R(k, v) == [key |-> k, value |-> v]

\* A dict keeps one item per key.
IsDict(r) == \A i, j \in 1..Len(r) : r[i].key = r[j].key => i = j

\* The body of the loop with the rules taken from the last to the first.
BodyReversed(r, i, xs) ==
    LET k == Len(r) + 1 - i IN
    IF Contains(xs, r[k].key) THEN Replace(xs, r[k].key, r[k].value) ELSE xs

\* The body of the loop with replace(key, value, 1): only the first
\* occurrence is rewritten.
BodyFirstOnly(r, i, xs) == ReplaceFirst(xs, r[i].key, r[i].value)

\* The body of the loop of StringReplacer.__call__ for rule i (from 1):
\* if self.keys[i] in x: x = x.replace(self.keys[i], self.values[i])
StringReplacerBody(r, i, xs) ==
    IF Contains(xs, r[i].key) THEN Replace(xs, r[i].key, r[i].value) ELSE xs

--------------------------------------------------------------------------------
(* The rule sets built on StringReplacer. *)

\* The catalog of PunctSpacer (line 76), each glyph as its codepoint, in list order.
puncts ==
    << 44, 46, 34, 58, 41, 40, 45, 33, 63, 124, 59, 39,
       36, 38, 47, 91, 93, 62, 37, 61, 35, 42, 43, 92,
       8226, 126, 64, 163, 183, 95, 123, 125, 169, 94, 174, 96,
       60, 8594, 176, 8364, 8482, 8250, 9829, 8592, 215, 167, 8243, 8242,
       194, 9608, 189, 224, 8230, 8220, 9733, 8221, 8211, 9679, 226, 9658,
       8722, 162, 178, 172, 9617, 182, 8593, 177, 191, 9662, 9552, 166,
       9553, 8213, 165, 9619, 8212, 8249, 9472, 9618, 65306, 188, 8853, 9660,
       9642, 8224, 9632, 8217, 9600, 168, 9604, 9835, 9734, 233, 175, 9830,
       164, 9650, 232, 184, 190, 195, 8901, 8216, 8734, 8729, 65289, 8595,
       12289, 9474, 65288, 187, 65292, 9834, 9577, 9562, 179, 12539, 9574, 9571,
       9556, 9559, 9644, 10084, 239, 216, 185, 8804, 8225, 8730 >>

\* PunctSpacer.__init__(edge_only): the rule dict handed to StringReplacer.
\* With edge_only the ' p' items come first, for every glyph, then the 'p '
\* items; no key occurs twice (no glyph is a space).
PunctSpacer(edge_only) ==
    LET n == Len(puncts) IN
    IF edge_only
    THEN [i \in 1..(2 * n) |->
            IF i <= n
            THEN R(<<32, puncts[i]>>, <<32, puncts[i], 32>>)
            ELSE R(<<puncts[i - n], 32>>, <<32, puncts[i - n], 32>>)]
    ELSE [i \in 1..n |-> R(<<puncts[i]>>, <<32, puncts[i], 32>>)]

\* The table of MisspellReplacer (lines 115-270), in declaration order.
MisspellRule ==
    <<
      R(<<97,105,110,39,116>>, <<105,115,32,110,111,116>>),  \* 115: ain't -> is_not
      R(<<97,114,101,110,39,116>>, <<97,114,101,32,110,111,116>>),  \* 116: aren't -> are_not
      R(<<99,97,110,39,116>>, <<99,97,110,110,111,116>>),  \* 117: can't -> cannot
      R(<<39,99,97,117,115,101>>, <<98,101,99,97,117,115,101>>),  \* 118: 'cause -> because
      R(<<99,111,117,108,100,39,118,101>>, <<99,111,117,108,100,32,104,97,118,101>>),  \* 119: could've -> could_have
      R(<<99,111,117,108,100,110,39,116>>, <<99,111,117,108,100,32,110,111,116>>),  \* 120: couldn't -> could_not
      R(<<100,105,100,110,39,116>>, <<100,105,100,32,110,111,116>>),  \* 121: didn't -> did_not
      R(<<100,111,101,115,110,39,116>>, <<100,111,101,115,32,110,111,116>>),  \* 122: doesn't -> does_not
      R(<<100,111,110,39,116>>, <<100,111,32,110,111,116>>),  \* 123: don't -> do_not
      R(<<104,97,100,110,39,116>>, <<104,97,100,32,110,111,116>>),  \* 124: hadn't -> had_not
      R(<<104,97,115,110,39,116>>, <<104,97,115,32,110,111,116>>),  \* 125: hasn't -> has_not
      R(<<104,97,118,101,110,39,116>>, <<104,97,118,101,32,110,111,116>>),  \* 126: haven't -> have_not
      R(<<104,101,39,100>>, <<104,101,32,119,111,117,108,100>>),  \* 127: he'd -> he_would
      R(<<104,101,39,108,108>>, <<104,101,32,119,105,108,108>>),  \* 128: he'll -> he_will
      R(<<104,101,39,115>>, <<104,101,32,105,115>>),  \* 129: he's -> he_is
      R(<<104,111,119,39,100,39,121>>, <<104,111,119,32,100,111,32,121,111,117>>),  \* 130: how'd'y -> how_do_you
      R(<<104,111,119,39,100>>, <<104,111,119,32,100,105,100>>),  \* 131: how'd -> how_did
      R(<<104,111,119,39,108,108>>, <<104,111,119,32,119,105,108,108>>),  \* 132: how'll -> how_will
      R(<<104,111,119,39,115>>, <<104,111,119,32,105,115>>),  \* 133: how's -> how_is
      R(<<105,39,100,39,118,101>>, <<105,32,119,111,117,108,100,32,104,97,118,101>>),  \* 134: i'd've -> i_would_have
      R(<<105,39,100>>, <<105,32,119,111,117,108,100>>),  \* 135: i'd -> i_would
      R(<<105,39,108,108,39,118,101>>, <<105,32,119,105,108,108,32,104,97,118,101>>),  \* 136: i'll've -> i_will_have
      R(<<105,39,108,108>>, <<105,32,119,105,108,108>>),  \* 137: i'll -> i_will
      R(<<105,39,109>>, <<105,32,97,109>>),  \* 138: i'm -> i_am
      R(<<105,39,118,101>>, <<105,32,104,97,118,101>>),  \* 139: i've -> i_have
      R(<<105,115,110,39,116>>, <<105,115,32,110,111,116>>),  \* 140: isn't -> is_not
      R(<<105,116,39,100,39,118,101>>, <<105,116,32,119,111,117,108,100,32,104,97,118,101>>),  \* 141: it'd've -> it_would_have
      R(<<105,116,39,100>>, <<105,116,32,119,111,117,108,100>>),  \* 142: it'd -> it_would
      R(<<105,116,39,108,108,39,118,101>>, <<105,116,32,119,105,108,108,32,104,97,118,101>>),  \* 143: it'll've -> it_will_have
      R(<<105,116,39,108,108>>, <<105,116,32,119,105,108,108>>),  \* 144: it'll -> it_will
      R(<<105,116,39,115>>, <<105,116,32,105,115>>),  \* 145: it's -> it_is
      R(<<108,101,116,39,115>>, <<108,101,116,32,117,115>>),  \* 146: let's -> let_us
      R(<<109,97,39,97,109>>, <<109,97,100,97,109>>),  \* 147: ma'am -> madam
      R(<<109,97,121,110,39,116>>, <<109,97,121,32,110,111,116>>),  \* 148: mayn't -> may_not
      R(<<109,105,103,104,116,39,118,101>>, <<109,105,103,104,116,32,104,97,118,101>>),  \* 149: might've -> might_have
      R(<<109,105,103,104,116,110,39,116,39,118,101>>, <<109,105,103,104,116,32,110,111,116,32,104,97,118,101>>),  \* 150: mightn't've -> might_not_have
      R(<<109,105,103,104,116,110,39,116>>, <<109,105,103,104,116,32,110,111,116>>),  \* 151: mightn't -> might_not
      R(<<109,117,115,116,39,118,101>>, <<109,117,115,116,32,104,97,118,101>>),  \* 152: must've -> must_have
      R(<<109,117,115,116,110,39,116,39,118,101>>, <<109,117,115,116,32,110,111,116,32,104,97,118,101>>),  \* 153: mustn't've -> must_not_have
      R(<<109,117,115,116,110,39,116>>, <<109,117,115,116,32,110,111,116>>),  \* 154: mustn't -> must_not
      R(<<110,101,101,100,110,39,116,39,118,101>>, <<110,101,101,100,32,110,111,116,32,104,97,118,101>>),  \* 155: needn't've -> need_not_have
      R(<<110,101,101,100,110,39,116>>, <<110,101,101,100,32,110,111,116>>),  \* 156: needn't -> need_not
      R(<<111,39,99,108,111,99,107>>, <<111,102,32,116,104,101,32,99,108,111,99,107>>),  \* 157: o'clock -> of_the_clock
      R(<<111,117,103,104,116,110,39,116,39,118,101>>, <<111,117,103,104,116,32,110,111,116,32,104,97,118,101>>),  \* 158: oughtn't've -> ought_not_have
      R(<<111,117,103,104,116,110,39,116>>, <<111,117,103,104,116,32,110,111,116>>),  \* 159: oughtn't -> ought_not
      R(<<115,104,97,110,39,116,39,118,101>>, <<115,104,97,108,108,32,110,111,116,32,104,97,118,101>>),  \* 160: shan't've -> shall_not_have
      R(<<115,104,97,110,39,116>>, <<115,104,97,108,108,32,110,111,116>>),  \* 161: shan't -> shall_not
      R(<<115,104,97,39,110,39,116>>, <<115,104,97,108,108,32,110,111,116>>),  \* 162: sha'n't -> shall_not
      R(<<115,104,101,39,100,39,118,101>>, <<115,104,101,32,119,111,117,108,100,32,104,97,118,101>>),  \* 163: she'd've -> she_would_have
      R(<<115,104,101,39,100>>, <<115,104,101,32,119,111,117,108,100>>),  \* 164: she'd -> she_would
      R(<<115,104,101,39,108,108,39,118,101>>, <<115,104,101,32,119,105,108,108,32,104,97,118,101>>),  \* 165: she'll've -> she_will_have
      R(<<115,104,101,39,108,108>>, <<115,104,101,32,119,105,108,108>>),  \* 166: she'll -> she_will
      R(<<115,104,101,39,115>>, <<115,104,101,32,105,115>>),  \* 167: she's -> she_is
      R(<<115,104,111,117,108,100,39,118,101>>, <<115,104,111,117,108,100,32,104,97,118,101>>),  \* 168: should've -> should_have
      R(<<115,104,111,117,108,100,110,39,116,39,118,101>>, <<115,104,111,117,108,100,32,110,111,116,32,104,97,118,101>>),  \* 169: shouldn't've -> should_not_have
      R(<<115,104,111,117,108,100,110,39,116>>, <<115,104,111,117,108,100,32,110,111,116>>),  \* 170: shouldn't -> should_not
      R(<<115,111,39,118,101>>, <<115,111,32,104,97,118,101>>),  \* 171: so've -> so_have
      R(<<115,111,39,115>>, <<115,111,32,97,115>>),  \* 172: so's -> so_as
      R(<<116,104,105,115,39,115>>, <<116,104,105,115,32,105,115>>),  \* 173: this's -> this_is
      R(<<116,104,97,116,39,100,39,118,101>>, <<116,104,97,116,32,119,111,117,108,100,32,104,97,118,101>>),  \* 174: that'd've -> that_would_have
      R(<<116,104,97,116,39,100>>, <<116,104,97,116,32,119,111,117,108,100>>),  \* 175: that'd -> that_would
      R(<<116,104,97,116,39,115>>, <<116,104,97,116,32,105,115>>),  \* 176: that's -> that_is
      R(<<116,104,101,114,101,39,100,39,118,101>>, <<116,104,101,114,101,32,119,111,117,108,100,32,104,97,118,101>>),  \* 177: there'd've -> there_would_have
      R(<<116,104,101,114,101,39,100>>, <<116,104,101,114,101,32,119,111,117,108,100>>),  \* 178: there'd -> there_would
      R(<<116,104,101,114,101,39,115>>, <<116,104,101,114,101,32,105,115>>),  \* 179: there's -> there_is
      R(<<104,101,114,101,39,115>>, <<104,101,114,101,32,105,115>>),  \* 180: here's -> here_is
      R(<<116,104,101,121,39,100,39,118,101>>, <<116,104,101,121,32,119,111,117,108,100,32,104,97,118,101>>),  \* 181: they'd've -> they_would_have
      R(<<116,104,101,121,39,100>>, <<116,104,101,121,32,119,111,117,108,100>>),  \* 182: they'd -> they_would
      R(<<116,104,101,121,39,108,108,39,118,101>>, <<116,104,101,121,32,119,105,108,108,32,104,97,118,101>>),  \* 183: they'll've -> they_will_have
      R(<<116,104,101,121,39,108,108>>, <<116,104,101,121,32,119,105,108,108>>),  \* 184: they'll -> they_will
      R(<<116,104,101,121,39,114,101>>, <<116,104,101,121,32,97,114,101>>),  \* 185: they're -> they_are
      R(<<116,104,101,121,39,118,101>>, <<116,104,101,121,32,104,97,118,101>>),  \* 186: they've -> they_have
      R(<<116,111,39,118,101>>, <<116,111,32,104,97,118,101>>),  \* 187: to've -> to_have
      R(<<119,97,115,110,39,116>>, <<119,97,115,32,110,111,116>>),  \* 188: wasn't -> was_not
      R(<<119,101,39,100,39,118,101>>, <<119,101,32,119,111,117,108,100,32,104,97,118,101>>),  \* 189: we'd've -> we_would_have
      R(<<119,101,39,100>>, <<119,101,32,119,111,117,108,100>>),  \* 190: we'd -> we_would
      R(<<119,101,39,108,108,39,118,101>>, <<119,101,32,119,105,108,108,32,104,97,118,101>>),  \* 191: we'll've -> we_will_have
      R(<<119,101,39,108,108>>, <<119,101,32,119,105,108,108>>),  \* 192: we'll -> we_will
      R(<<119,101,39,114,101>>, <<119,101,32,97,114,101>>),  \* 193: we're -> we_are
      R(<<119,101,39,118,101>>, <<119,101,32,104,97,118,101>>),  \* 194: we've -> we_have
      R(<<119,101,114,101,110,39,116>>, <<119,101,114,101,32,110,111,116>>),  \* 195: weren't -> were_not
      R(<<119,104,97,116,39,108,108,39,118,101>>, <<119,104,97,116,32,119,105,108,108,32,104,97,118,101>>),  \* 196: what'll've -> what_will_have
      R(<<119,104,97,116,39,108,108>>, <<119,104,97,116,32,119,105,108,108>>),  \* 197: what'll -> what_will
      R(<<119,104,97,116,39,114,101>>, <<119,104,97,116,32,97,114,101>>),  \* 198: what're -> what_are
      R(<<119,104,97,116,39,115>>, <<119,104,97,116,32,105,115>>),  \* 199: what's -> what_is
      R(<<119,104,97,116,39,118,101>>, <<119,104,97,116,32,104,97,118,101>>),  \* 200: what've -> what_have
      R(<<119,104,101,110,39,115>>, <<119,104,101,110,32,105,115>>),  \* 201: when's -> when_is
      R(<<119,104,101,110,39,118,101>>, <<119,104,101,110,32,104,97,118,101>>),  \* 202: when've -> when_have
      R(<<119,104,101,114,101,39,100>>, <<119,104,101,114,101,32,100,105,100>>),  \* 203: where'd -> where_did
      R(<<119,104,101,114,101,39,115>>, <<119,104,101,114,101,32,105,115>>),  \* 204: where's -> where_is
      R(<<119,104,101,114,101,39,118,101>>, <<119,104,101,114,101,32,104,97,118,101>>),  \* 205: where've -> where_have
      R(<<119,104,111,39,108,108,39,118,101>>, <<119,104,111,32,119,105,108,108,32,104,97,118,101>>),  \* 206: who'll've -> who_will_have
      R(<<119,104,111,39,108,108>>, <<119,104,111,32,119,105,108,108>>),  \* 207: who'll -> who_will
      R(<<119,104,111,39,115>>, <<119,104,111,32,105,115>>),  \* 208: who's -> who_is
      R(<<119,104,111,39,118,101>>, <<119,104,111,32,104,97,118,101>>),  \* 209: who've -> who_have
      R(<<119,104,121,39,115>>, <<119,104,121,32,105,115>>),  \* 210: why's -> why_is
      R(<<119,104,121,39,118,101>>, <<119,104,121,32,104,97,118,101>>),  \* 211: why've -> why_have
      R(<<119,105,108,108,39,118,101>>, <<119,105,108,108,32,104,97,118,101>>),  \* 212: will've -> will_have
      R(<<119,111,110,39,116,39,118,101>>, <<119,105,108,108,32,110,111,116,32,104,97,118,101>>),  \* 213: won't've -> will_not_have
      R(<<119,111,110,39,116>>, <<119,105,108,108,32,110,111,116>>),  \* 214: won't -> will_not
      R(<<119,111,117,108,100,39,118,101>>, <<119,111,117,108,100,32,104,97,118,101>>),  \* 215: would've -> would_have
      R(<<119,111,117,108,100,110,39,116,39,118,101>>, <<119,111,117,108,100,32,110,111,116,32,104,97,118,101>>),  \* 216: wouldn't've -> would_not_have
      R(<<119,111,117,108,100,110,39,116>>, <<119,111,117,108,100,32,110,111,116>>),  \* 217: wouldn't -> would_not
      R(<<121,39,97,108,108,39,100,39,118,101>>, <<121,111,117,32,97,108,108,32,119,111,117,108,100,32,104,97,118,101>>),  \* 218: y'all'd've -> you_all_would_have
      R(<<121,39,97,108,108,39,100>>, <<121,111,117,32,97,108,108,32,119,111,117,108,100>>),  \* 219: y'all'd -> you_all_would
      R(<<121,39,97,108,108,39,114,101>>, <<121,111,117,32,97,108,108,32,97,114,101>>),  \* 220: y'all're -> you_all_are
      R(<<121,39,97,108,108,39,118,101>>, <<121,111,117,32,97,108,108,32,104,97,118,101>>),  \* 221: y'all've -> you_all_have
      R(<<121,39,97,108,108>>, <<121,111,117,32,97,108,108>>),  \* 222: y'all -> you_all
      R(<<121,111,117,39,100,39,118,101>>, <<121,111,117,32,119,111,117,108,100,32,104,97,118,101>>),  \* 223: you'd've -> you_would_have
      R(<<121,111,117,39,100>>, <<121,111,117,32,119,111,117,108,100>>),  \* 224: you'd -> you_would
      R(<<121,111,117,39,108,108,39,118,101>>, <<121,111,117,32,119,105,108,108,32,104,97,118,101>>),  \* 225: you'll've -> you_will_have
      R(<<121,111,117,39,108,108>>, <<121,111,117,32,119,105,108,108>>),  \* 226: you'll -> you_will
      R(<<121,111,117,39,114,101>>, <<121,111,117,32,97,114,101>>),  \* 227: you're -> you_are
      R(<<121,111,117,39,118,101>>, <<121,111,117,32,104,97,118,101>>),  \* 228: you've -> you_have
      R(<<99,111,108,111,117,114>>, <<99,111,108,111,114>>),  \* 229: colour -> color
      R(<<99,101,110,116,114,101>>, <<99,101,110,116,101,114>>),  \* 230: centre -> center
      R(<<102,97,118,111,117,114,105,116,101>>, <<102,97,118,111,114,105,116,101>>),  \* 231: favourite -> favorite
      R(<<116,114,97,118,101,108,108,105,110,103>>, <<116,114,97,118,101,108,105,110,103>>),  \* 232: travelling -> traveling
      R(<<99,111,117,110,115,101,108,108,105,110,103>>, <<99,111,117,110,115,101,108,105,110,103>>),  \* 233: counselling -> counseling
      R(<<116,104,101,97,116,114,101>>, <<116,104,101,97,116,101,114>>),  \* 234: theatre -> theater
      R(<<99,97,110,99,101,108,108,101,100>>, <<99,97,110,99,101,108,101,100>>),  \* 235: cancelled -> canceled
      R(<<108,97,98,111,117,114>>, <<108,97,98,111,114>>),  \* 236: labour -> labor
      R(<<111,114,103,97,110,105,115,97,116,105,111,110>>, <<111,114,103,97,110,105,122,97,116,105,111,110>>),  \* 237: organisation -> organization
      R(<<119,119,105,105>>, <<119,111,114,108,100,32,119,97,114,32,50>>),  \* 238: wwii -> world_war_2
      R(<<99,105,116,105,99,105,115,101>>, <<99,114,105,116,105,99,105,122,101>>),  \* 239: citicise -> criticize
      R(<<121,111,117,116,117,32>>, <<121,111,117,116,117,98,101,32>>),  \* 240: youtu_ -> youtube_
      R(<<113,111,117,114,97>>, <<113,117,111,114,97>>),  \* 241: qoura -> quora
      R(<<115,97,108,108,97,114,121>>, <<115,97,108,97,114,121>>),  \* 242: sallary -> salary
      R(<<119,104,116,97>>, <<119,104,97,116>>),  \* 243: whta -> what
      R(<<110,97,114,99,105,115,105,115,116>>, <<110,97,114,99,105,115,115,105,115,116>>),  \* 244: narcisist -> narcissist
      R(<<104,111,119,100,111>>, <<104,111,119,32,100,111>>),  \* 245: howdo -> how_do
      R(<<119,104,97,116,97,114,101>>, <<119,104,97,116,32,97,114,101>>),  \* 246: whatare -> what_are
      R(<<104,111,119,99,97,110>>, <<104,111,119,32,99,97,110>>),  \* 247: howcan -> how_can
      R(<<104,111,119,109,117,99,104>>, <<104,111,119,32,109,117,99,104>>),  \* 248: howmuch -> how_much
      R(<<104,111,119,109,97,110,121>>, <<104,111,119,32,109,97,110,121>>),  \* 249: howmany -> how_many
      R(<<119,104,121,100,111>>, <<119,104,121,32,100,111>>),  \* 250: whydo -> why_do
      R(<<100,111,105>>, <<100,111,32,105>>),  \* 251: doi -> do_i
      R(<<116,104,101,98,101,115,116>>, <<116,104,101,32,98,101,115,116>>),  \* 252: thebest -> the_best
      R(<<104,111,119,100,111,101,115>>, <<104,111,119,32,100,111,101,115>>),  \* 253: howdoes -> how_does
      R(<<109,97,115,116,114,117,98,97,116,105,111,110>>, <<109,97,115,116,117,114,98,97,116,105,111,110>>),  \* 254: mastrubation -> masturbation
      R(<<109,97,115,116,114,117,98,97,116,101>>, <<109,97,115,116,117,114,98,97,116,101>>),  \* 255: mastrubate -> masturbate
      R(<<109,97,115,116,114,117,98,97,116,105,110,103>>, <<109,97,115,116,117,114,98,97,116,105,110,103>>),  \* 256: mastrubating -> masturbating
      R(<<112,101,110,110,105,115>>, <<112,101,110,105,115>>),  \* 257: pennis -> penis
      R(<<101,116,104,101,114,105,117,109>>, <<101,116,104,101,114,101,117,109>>),  \* 258: etherium -> ethereum
      R(<<110,97,114,99,105,115,115,105,116>>, <<110,97,114,99,105,115,115,105,115,116>>),  \* 259: narcissit -> narcissist
      R(<<98,105,103,100,97,116,97>>, <<98,105,103,32,100,97,116,97>>),  \* 260: bigdata -> big_data
      R(<<50,107,49,55>>, <<50,48,49,55>>),  \* 261: 2k17 -> 2017
      R(<<50,107,49,56>>, <<50,48,49,56>>),  \* 262: 2k18 -> 2018
      R(<<113,111,117,116,97>>, <<113,117,111,116,97>>),  \* 263: qouta -> quota
      R(<<101,120,98,111,121,102,114,105,101,110,100>>, <<101,120,32,98,111,121,102,114,105,101,110,100>>),  \* 264: exboyfriend -> ex_boyfriend
      R(<<97,105,114,104,111,115,116,101,115,115>>, <<97,105,114,32,104,111,115,116,101,115,115>>),  \* 265: airhostess -> air_hostess
      R(<<119,104,115,116>>, <<119,104,97,116>>),  \* 266: whst -> what
      R(<<119,97,116,115,97,112,112>>, <<119,104,97,116,115,97,112,112>>),  \* 267: watsapp -> whatsapp
      R(<<100,101,109,111,110,105,116,105,115,97,116,105,111,110>>, <<100,101,109,111,110,101,116,105,122,97,116,105,111,110>>),  \* 268: demonitisation -> demonetization
      R(<<100,101,109,111,110,105,116,105,122,97,116,105,111,110>>, <<100,101,109,111,110,101,116,105,122,97,116,105,111,110>>),  \* 269: demonitization -> demonetization
      R(<<100,101,109,111,110,101,116,105,115,97,116,105,111,110>>, <<100,101,109,111,110,101,116,105,122,97,116,105,111,110>>)  \* 270: demonetisation -> demonetization
    >>

\* MisspellReplacer.__init__(): the rule dict handed to StringReplacer.
MisspellReplacer == MisspellRule

--------------------------------------------------------------------------------
(* RegExpReplacer.  The regular expressions of the model are the two shapes  *)
(* the rule sets use: a counted digit class, [0-9]{m} or [0-9]{m,}, and a    *)
(* pattern without metacharacters, which matches itself.                     *)

\* '[0-9]'
DigitClass == <<91, 48, 45, 57, 93>>

IsDigit(c) == c \in 48..57

\* Whether the pattern source is [0-9]{m} or [0-9]{m,} for a one-digit m.
IsCounted(key) ==
    /\ Len(key) \in {8, 9}
    /\ SubSeq(key, 1, 5) = DigitClass
    /\ key[6] = 123
    /\ IsDigit(key[7])
    /\ \/ Len(key) = 8 /\ key[8] = 125
       \/ Len(key) = 9 /\ key[8] = 44 /\ key[9] = 125

\* The least number of digits a counted pattern takes.
CountOf(key) == key[7] - 48

\* Whether a counted pattern is open-ended, {m,}.
IsOpen(key) == Len(key) = 9

\* The number of consecutive digits of xs from position pos on.
DigitRun(xs, pos) ==
    CHOOSE n \in 0..(Len(xs) - pos + 1) :
        /\ \A j \in pos..(pos + n - 1) : IsDigit(xs[j])
        /\ pos + n <= Len(xs) => ~IsDigit(xs[pos + n])

\* The length of the match of the pattern at pos, -1 when it does not match
\* there.  A counted class is greedy: {m,} takes the whole run.
MatchAt(key, xs, pos) ==
    IF IsCounted(key)
    THEN IF DigitRun(xs, pos) < CountOf(key) THEN -1
         ELSE IF IsOpen(key) THEN DigitRun(xs, pos) ELSE CountOf(key)
    ELSE IF /\ pos + Len(key) - 1 <= Len(xs)
            /\ SubSeq(xs, pos, pos + Len(key) - 1) = key
         THEN Len(key) ELSE -1

\* The alternation '(k1|k2|...)' at pos: the first alternative that matches
\* there decides the match.
AltMatchAt(r, xs, pos) ==
    LET hits == {i \in 1..Len(r) : MatchAt(r[i].key, xs, pos) >= 0} IN
    IF hits = {} THEN -1
    ELSE MatchAt(r[CHOOSE i \in hits : \A j \in hits : i <= j].key, xs, pos)

RECURSIVE ReSubFrom(_, _, _, _)
\* re.sub(key, value, xs), scanning from pos.
ReSubFrom(key, value, xs, pos) ==
    IF pos > Len(xs) THEN <<>>
    ELSE LET n == MatchAt(key, xs, pos) IN
         IF n > 0 THEN value \o ReSubFrom(key, value, xs, pos + n)
         ELSE <<xs[pos]>> \o ReSubFrom(key, value, xs, pos + 1)

\* re.sub(key, value, xs)
ReSub(key, value, xs) == ReSubFrom(key, value, xs, 1)

RECURSIVE Cascade(_, _, _)
\* The else branch of replace: every rule's re.sub, from rule i on.
Cascade(r, i, m) ==
    IF i > Len(r) THEN m
    ELSE Cascade(r, i + 1, ReSub(r[i].key, r[i].value, m))

\* A replace that applies only the rule of the alternative that matched.
ReplaceMatchedOnly(r, m) ==
    IF \E i \in 1..Len(r) : r[i].key = m
    THEN r[CHOOSE i \in 1..Len(r) : r[i].key = m].value
    ELSE LET hits == {i \in 1..Len(r) : MatchAt(r[i].key, m, 1) >= 0}
             k == CHOOSE i \in hits : \A j \in hits : i <= j
         IN  ReSub(r[k].key, r[k].value, m)

\* The callback replace(match) of RegExpReplacer.__call__, m = match.group(0).
ReplaceMatch(r, m) ==
    IF \E i \in 1..Len(r) : r[i].key = m
    THEN r[CHOOSE i \in 1..Len(r) : r[i].key = m].value
    ELSE Cascade(r, 1, m)

RECURSIVE RegExpSubFrom(_, _, _)
\* self.regexp.sub(replace, x), scanning from pos.
RegExpSubFrom(r, xs, pos) ==
    IF pos > Len(xs) THEN <<>>
    ELSE LET n == AltMatchAt(r, xs, pos) IN
         IF n > 0
         THEN ReplaceMatch(r, SubSeq(xs, pos, pos + n - 1))
                  \o RegExpSubFrom(r, xs, pos + n)
         ELSE <<xs[pos]>> \o RegExpSubFrom(r, xs, pos + 1)

\* RegExpReplacer.__call__(x)
RegExpReplacer(r, xs) == RegExpSubFrom(r, xs, 1)

\* n '#' characters.
Hashes(n) == [i \in 1..n |-> 35]

\* '[0-9]{m}' or, with open, '[0-9]{m,}'.
Counted(m, open) ==
    DigitClass \o <<123, 48 + m>> \o (IF open THEN <<44>> ELSE <<>>) \o <<125>>

\* A NumberReplacer whose rules are declared shortest run first.
NumberReplacerShortestFirst(with_underscore) ==
    LET prefix == IF with_underscore THEN <<32, 95, 95>> ELSE <<>>
        suffix == IF with_underscore THEN <<95, 95, 32>> ELSE <<>>
    IN  << R(Counted(2, FALSE), prefix \o Hashes(2) \o suffix),
           R(Counted(3, FALSE), prefix \o Hashes(3) \o suffix),
           R(Counted(4, FALSE), prefix \o Hashes(4) \o suffix),
           R(Counted(5, TRUE), prefix \o Hashes(5) \o suffix) >>

\* NumberReplacer.__init__(with_underscore): the rule dict handed to
\* RegExpReplacer.
NumberReplacer(with_underscore) ==
    LET prefix == IF with_underscore THEN <<32, 95, 95>> ELSE <<>>
        suffix == IF with_underscore THEN <<95, 95, 32>> ELSE <<>>
    IN  << R(Counted(5, TRUE), prefix \o Hashes(5) \o suffix),
           R(Counted(4, FALSE), prefix \o Hashes(4) \o suffix),
           R(Counted(3, FALSE), prefix \o Hashes(3) \o suffix),
           R(Counted(2, FALSE), prefix \o Hashes(2) \o suffix) >>

--------------------------------------------------------------------------------
(* Calls of the replacers. *)

\* The state of the unidecode_weak part before anything ran.
UnidecodeIdle ==
    /\ modules = <<>>
    /\ Cache = <<>>
    /\ loads = <<>>
    /\ string = <<>>
    /\ retval = <<>>
    /\ raised = FALSE
    /\ calls = <<>>

\* A replacer of class c with rule dict r, about to be called on xs.
Constructed(c, r, xs) ==
    /\ cls = c
    /\ rule = r
    /\ arg = xs
    /\ x = <<>>
    /\ iter = 0
    /\ out = <<>>
    /\ pc = "ready"
    /\ UnidecodeIdle

unidecodeVars == <<modules, Cache, loads, string, retval, raised, calls>>

\* StringReplacer.__call__(x) is entered.
StringReplacerCall ==
    /\ pc = "ready"
    /\ cls = "StringReplacer"
    /\ x' = arg
    /\ iter' = 0
    /\ pc' = "loop"
    /\ UNCHANGED <<cls, rule, arg, out, unidecodeVars>>

\* One iteration of "for i in range(self.n_rules)".
StringReplacerIterate ==
    /\ pc = "loop"
    /\ iter < Len(rule)
    /\ x' = StringReplacerBody(rule, iter + 1, x)
    /\ iter' = iter + 1
    /\ UNCHANGED <<cls, rule, arg, out, pc, unidecodeVars>>

\* "return x" after the last rule.
StringReplacerReturn ==
    /\ pc = "loop"
    /\ iter = Len(rule)
    /\ out' = x
    /\ pc' = "done"
    /\ UNCHANGED <<cls, rule, arg, x, iter, unidecodeVars>>

NextStringReplacer ==
    \/ StringReplacerCall
    \/ StringReplacerIterate
    \/ StringReplacerReturn

\* RegExpReplacer.__call__(x)
RegExpReplacerCall ==
    /\ pc = "ready"
    /\ cls = "RegExpReplacer"
    /\ out' = RegExpReplacer(rule, arg)
    /\ pc' = "done"
    /\ UNCHANGED <<cls, rule, arg, x, iter, unidecodeVars>>

\* Rule dicts a StringReplacer is built from: up to MaxRules items, keys
\* 'a', 'b', 'aa', 'ab', 'ba', 'bb', values '', 'b', 'aa'.
GenericRules ==
    LET items == {R(k, v) : k \in Strings({97, 98}, 1, 2),
                            v \in {<<>>, <<98>>, <<97, 97>>}}
    IN  {r \in UNION {[1..n -> items] : n \in 0..MaxRules} : IsDict(r)}

\* StringReplacer(rule) for the generic rule dicts, on strings over 'a', 'b'.
InitString ==
    \E r \in GenericRules, xs \in Strings({97, 98}, 0, MaxLen) :
        Constructed("StringReplacer", r, xs)

SpecString == InitString /\ [][NextStringReplacer]_vars

\* PunctSpacer(edge_only=True), on strings over 'a', ' ', '.', "'".
InitPunct ==
    \E xs \in Strings({97, 32, 46, 39}, 0, MaxPunctLen) :
        Constructed("StringReplacer", PunctSpacer(TRUE), xs)

SpecPunct == InitPunct /\ [][NextStringReplacer]_vars

\* MisspellReplacer(), on each key of its table.
InitMisspell ==
    \E i \in 1..Len(MisspellReplacer) :
        Constructed("StringReplacer", MisspellReplacer, MisspellReplacer[i].key)

SpecMisspell == InitMisspell /\ [][NextStringReplacer]_vars

\* Rule dicts a RegExpReplacer is built from, besides NumberReplacer's:
\* {'[0-9]{2}': 'a', '12': '2a'}, {'[0-9]{3}': '12', '[0-9]{2}': 'a'} and
\* {'a': '11', '[0-9]{2,}': 'b'}.
PatternRules ==
    { << R(Counted(2, FALSE), <<97>>), R(<<49, 50>>, <<50, 97>>) >>,
      << R(Counted(3, FALSE), <<49, 50>>), R(Counted(2, FALSE), <<97>>) >>,
      << R(<<97>>, <<49, 49>>), R(Counted(2, TRUE), <<98>>) >> }

\* RegExpReplacer(rule), on strings over '1', '2', 'a'.
InitRegExp ==
    \E r \in PatternRules \cup {NumberReplacer(FALSE), NumberReplacer(TRUE)},
       xs \in Strings({49, 50, 97}, 0, MaxReLen) :
        Constructed("RegExpReplacer", r, xs)

SpecRegExp == InitRegExp /\ [][RegExpReplacerCall]_vars

--------------------------------------------------------------------------------
(* unidecode_weak and the module-level Cache.                                *)
(*                                                                           *)
(* The tables are the data of the modules unidecode.xNNN, one per section    *)
(* (codepoint >> 8).  They are not part of the repository: the model draws   *)
(* which sections have a module, and of which length, from a small set, and  *)
(* fixes the entries.  All entries are ASCII strings.                        *)

\* '[?]'
Unknown == <<91, 63, 93>>

\* The characters of the model: 'A', U+5317, U+5318, U+EFFFF and U+F0000, the
\* first one above 0xeffff.
UniChars == {65, 21271, 21272, 983039, 983040}

\* The sections of those the range tests let through: x053 and xeff.
Sections == {83, 3839}

\* table[position] of every table: 'Bei ' at 0x17 (the docstring's
\* U+5317), '[?]' at 0x18, '' at 0xff, 'a' elsewhere.
Entry(position) ==
    CASE position = 23 -> <<66, 101, 105, 32>>
      [] position = 24 -> Unknown
      [] position = 255 -> <<>>
      [] OTHER -> <<97>>

\* len(mod.data) for a module of the given kind: 256 entries when "full", the
\* first 24 (positions 0x00..0x17) when "short".
ModuleLen(kind) == IF kind = "full" THEN 256 ELSE 24

\* The table resources a run can have.
Resources == [Sections -> {"full", "short", "missing"}]

\* The value None in Cache, and a table in Cache: Python stores a reference to
\* the tuple mod.data of the section's module, not a copy of it.
None == [isNone |-> TRUE, module |-> -1]
Table(section) == [isNone |-> FALSE, module |-> section]

\* len(table) for a Cache value that is a table.
TableLen(m, table) == ModuleLen(m[table.module])

\* codepoint < 0x80
IsAscii(codepoint) == codepoint < 128

\* A range test that lets 0xf0000 and above through.
IsIgnoredNever(codepoint) == FALSE

\* codepoint > 0xeffff
IsIgnored(codepoint) == codepoint > 983039

\* codepoint >> 8
Section(codepoint) == codepoint \div 256

\* codepoint % 256
Position(codepoint) == codepoint % 256

\* Whether __import__('unidecode.x%03x' % section) raises ImportError.
ImportFails(m, section) ==
    section \notin DOMAIN m \/ m[section] = "missing"

\* Lines 314-318: what the character appends to retval, given its table.
\* "if table" is false for None and for an empty table.
Emit(ret, m, table, position, char) ==
    IF ~table.isNone /\ TableLen(m, table) > 0 /\ TableLen(m, table) > position
    THEN IF Entry(position) = Unknown
         THEN ret \o <<32, char, 32>>
         ELSE ret \o Entry(position)
    ELSE ret

\* The state a call works on: the Cache, the imports made, retval, and whether
\* an exception left the call.
Frame(cache, ld, ret) ==
    [Cache |-> cache, loads |-> ld, retval |-> ret, raised |-> FALSE]

\* __import__ ran once more for the section.
Loaded(ld, section) ==
    (section :> (IF section \in DOMAIN ld THEN ld[section] + 1 ELSE 1)) @@ ld

\* "Cache = {section: v}": the dict is rebound, not updated.
StoredAlone(cache, section, v) == (section :> v)

\* Cache[section] = v
Stored(cache, section, v) == (section :> v) @@ cache

\* An "except ImportError" that does not store None: the character is dropped
\* and the next one of the section imports again.
OnImportErrorForget(f, section) == [f EXCEPT !.loads = Loaded(f.loads, section)]

\* Lines 308-310: the import failed; Cache[section] = None and continue.
OnImportError(f, section) ==
    [f EXCEPT !.loads = Loaded(f.loads, section),
              !.Cache = Stored(f.Cache, section, None)]

\* Line 312 followed by "continue": the table is stored and the character that
\* made it load is dropped.
OnImportedSkip(f, m, section, position, char) ==
    [f EXCEPT !.loads = Loaded(f.loads, section),
              !.Cache = Stored(f.Cache, section, Table(section))]

\* Lines 312-318: the import succeeded; Cache[section] = table = mod.data, and
\* the character is emitted from the table.
OnImported(f, m, section, position, char) ==
    [f EXCEPT !.loads = Loaded(f.loads, section),
              !.Cache = Stored(f.Cache, section, Table(section)),
              !.retval = Emit(f.retval, m, Table(section), position, char)]

\* The body of the loop of unidecode_weak for one character (lines 290-318).
ProcessChar(f, m, char) ==
    IF f.raised THEN f
    ELSE IF IsAscii(char) THEN [f EXCEPT !.retval = f.retval \o <<char>>]
    ELSE IF IsIgnored(char) THEN f
    ELSE LET section == Section(char)
             position == Position(char)
         IN  IF section \in DOMAIN f.Cache
             THEN [f EXCEPT !.retval = Emit(f.retval, m, f.Cache[section],
                                            position, char)]
             ELSE IF ImportFails(m, section)
                  THEN OnImportError(f, section)
                  ELSE OnImported(f, m, section, position, char)

RECURSIVE UnidecodeLoop(_, _, _, _)
\* The loop of unidecode_weak from character k on.
UnidecodeLoop(f, m, s, k) ==
    IF k > Len(s) THEN f
    ELSE UnidecodeLoop(ProcessChar(f, m, s[k]), m, s, k + 1)

\* unidecode_weak(string) run on the given Cache: the Cache it leaves, the
\* imports it made and the string it returns.
unidecode_weak(cache, ld, m, s) == UnidecodeLoop(Frame(cache, ld, <<>>), m, s, 1)

replacerVars == <<cls, rule, arg, x, iter, out>>

\* No replacer is constructed.
ReplacerIdle ==
    /\ cls = "none"
    /\ rule = <<>>
    /\ arg = <<>>
    /\ x = <<>>
    /\ iter = 0
    /\ out = <<>>

\* The process starts: Cache = {} (line 275), over some table resources.
InitUnidecode ==
    /\ ReplacerIdle
    /\ pc = "ready"
    /\ modules \in Resources
    /\ Cache = <<>>
    /\ loads = <<>>
    /\ string = <<>>
    /\ retval = <<>>
    /\ raised = FALSE
    /\ calls = <<>>

\* One call unidecode_weak(s), start to return.
UnidecodeCall ==
    \E s \in Strings(UniChars, 0, MaxUniLen) :
        LET f == unidecode_weak(Cache, loads, modules, s) IN
        /\ cls = "none"
        /\ calls = <<>>
        /\ string' = s
        /\ Cache' = f.Cache
        /\ loads' = f.loads
        /\ retval' = f.retval
        /\ raised' = f.raised
        /\ pc' = "done"
        /\ UNCHANGED <<replacerVars, modules, calls>>

SpecUnidecode == InitUnidecode /\ [][UnidecodeCall]_vars

--------------------------------------------------------------------------------
(* Two callers of unidecode_weak on the one Cache, their steps interleaved.  *)

Callers == {1, 2}

\* The characters the concurrent callers are given.
ConcChars == {65, 21271, 21272, 983039}

\* A caller about to run unidecode_weak(s): k is the index of its current
\* character (from 1), table its local of that name.
Entered(s) ==
    [string |-> s, k |-> 1, retval |-> <<>>, table |-> None, at |-> "char"]

InitConcurrent ==
    /\ ReplacerIdle
    /\ pc = "ready"
    /\ modules \in Resources
    /\ Cache = <<>>
    /\ loads = <<>>
    /\ string = <<>>
    /\ retval = <<>>
    /\ raised = FALSE
    /\ calls \in [Callers -> {Entered(s) : s \in Strings(ConcChars, 0, MaxConcLen)}]

\* The caller's current character.
Char(c) == calls[c].string[calls[c].k]

concFrame == <<replacerVars, pc, modules, string, retval, raised>>

\* Lines 290-301: the next character; an ASCII one is appended, one above
\* 0xeffff is skipped, any other goes to the Cache lookup.
NextChar(c) ==
    /\ calls[c].at = "char"
    /\ calls[c].k <= Len(calls[c].string)
    /\ calls' = [calls EXCEPT ![c] =
            IF IsAscii(Char(c))
            THEN [@ EXCEPT !.retval = @ \o <<Char(c)>>, !.k = @ + 1]
            ELSE IF IsIgnored(Char(c)) THEN [@ EXCEPT !.k = @ + 1]
            ELSE [@ EXCEPT !.at = "lookup"]]
    /\ UNCHANGED <<concFrame, Cache, loads>>

\* Lines 303-305: table = Cache[section], or KeyError.
Lookup(c) ==
    /\ calls[c].at = "lookup"
    /\ calls' = [calls EXCEPT ![c] =
            IF Section(Char(c)) \in DOMAIN Cache
            THEN [@ EXCEPT !.table = Cache[Section(Char(c))], !.at = "emit"]
            ELSE [@ EXCEPT !.at = "import"]]
    /\ UNCHANGED <<concFrame, Cache, loads>>

\* Lines 306-308: __import__ of the section's module.
Import(c) ==
    /\ calls[c].at = "import"
    /\ loads' = Loaded(loads, Section(Char(c)))
    /\ calls' = [calls EXCEPT ![c] =
            IF ImportFails(modules, Section(Char(c)))
            THEN [@ EXCEPT !.at = "store_none"]
            ELSE [@ EXCEPT !.at = "store"]]
    /\ UNCHANGED <<concFrame, Cache>>

\* Lines 309-310: Cache[section] = None; continue.
StoreNone(c) ==
    /\ calls[c].at = "store_none"
    /\ Cache' = Stored(Cache, Section(Char(c)), None)
    /\ calls' = [calls EXCEPT ![c] = [@ EXCEPT !.k = @ + 1, !.at = "char"]]
    /\ UNCHANGED <<concFrame, loads>>

\* Line 312: Cache[section] = table = mod.data.
StoreTable(c) ==
    /\ calls[c].at = "store"
    /\ Cache' = Stored(Cache, Section(Char(c)), Table(Section(Char(c))))
    /\ calls' = [calls EXCEPT ![c] =
            [@ EXCEPT !.table = Table(Section(Char(c))), !.at = "emit"]]
    /\ UNCHANGED <<concFrame, loads>>

\* Lines 314-318: the character is emitted from the local table.
EmitChar(c) ==
    /\ calls[c].at = "emit"
    /\ calls' = [calls EXCEPT ![c] =
            [@ EXCEPT !.retval = Emit(@, modules, calls[c].table,
                                      Position(Char(c)), Char(c)),
                      !.k = @ + 1, !.at = "char"]]
    /\ UNCHANGED <<concFrame, Cache, loads>>

\* Line 320: return ''.join(retval).
Return(c) ==
    /\ calls[c].at = "char"
    /\ calls[c].k > Len(calls[c].string)
    /\ calls' = [calls EXCEPT ![c] = [@ EXCEPT !.at = "done"]]
    /\ UNCHANGED <<concFrame, Cache, loads>>

NextConcurrent ==
    \E c \in Callers :
        \/ NextChar(c)
        \/ Lookup(c)
        \/ Import(c)
        \/ StoreNone(c)
        \/ StoreTable(c)
        \/ EmitChar(c)
        \/ Return(c)

SpecConcurrent == InitConcurrent /\ [][NextConcurrent]_vars

--------------------------------------------------------------------------------
(* Claims about StringReplacer and the rule sets built on it. *)

\* Whether k occurs in xs at position p.
C1_Occurs(xs, k, p) ==
    p + Len(k) - 1 <= Len(xs) /\ SubSeq(xs, p, p + Len(k) - 1) = k

\* The occurrences of k in xs that a replacement of all of them rewrites: taken
\* from the left, none overlapping one taken before it.
C1_Starts(xs, k) ==
    LET sel[p \in 0..Len(xs)] ==
            IF p = 0 THEN {}
            ELSE IF C1_Occurs(xs, k, p) /\ \A q \in sel[p - 1] : q + Len(k) <= p
                 THEN sel[p - 1] \cup {p}
                 ELSE sel[p - 1]
    IN  sel[Len(xs)]

\* xs with all occurrences of k replaced by v, position by position.
C1_ReplaceAll(xs, k, v) ==
    LET S == C1_Starts(xs, k)
        piece(p) == IF p \in S THEN v
                    ELSE IF \E q \in S : q < p /\ p < q + Len(k) THEN <<>>
                    ELSE <<xs[p]>>
        cat[p \in 0..Len(xs)] == IF p = 0 THEN <<>> ELSE cat[p - 1] \o piece(p)
    IN  cat[Len(xs)]

\* The fold of the first n rules of r over xs, in declaration order.
C1_Fold(r, xs, n) ==
    LET f[j \in 0..n] ==
            IF j = 0 THEN xs
            ELSE C1_ReplaceAll(f[j - 1], r[j].key, r[j].value)
    IN  f[n]

\* C1: StringReplacer applied to a string folds over its rules in declaration
\* order, each rule replacing all occurrences of its key in the string as the
\* rules before it left it: after the first iter rules the local x is the fold
\* of these rules over the argument, the value returned is the fold of all
\* rules, and an argument that contains none of the keys is returned as it is.
C1_FoldInOrder ==
    (cls = "StringReplacer" /\ pc \in {"loop", "done"}) =>
        /\ x = C1_Fold(rule, arg, iter)
        /\ pc = "done" => out = C1_Fold(rule, arg, Len(rule))
        /\ (/\ pc = "done"
            /\ \A j \in 1..Len(rule), p \in 1..Len(arg) :
                   ~C1_Occurs(arg, rule[j].key, p))
           => out = arg

\* A call has returned in which the second rule's key was not in the argument
\* and was rewritten in the text the first rule produced.
C1_Witness ==
    /\ cls = "StringReplacer"
    /\ pc = "done"
    /\ Len(rule) = 2
    /\ \A p \in 1..Len(arg) : ~C1_Occurs(arg, rule[2].key, p)
    /\ C1_Starts(C1_Fold(rule, arg, 1), rule[2].key) # {}
    /\ out # C1_Fold(rule, arg, 1)

\* The positions of the characters of xs that are not spaces, in order.
C4_Marks(xs) ==
    SelectSeq([p \in 1..Len(xs) |-> p], LAMBDA p : xs[p] # 32)

\* Whether position p of xs has no space right before or right after it.
C4_NoSpaceAround(xs, p) ==
    /\ p > 1 => xs[p - 1] # 32
    /\ p < Len(xs) => xs[p + 1] # 32

\* Whether position p of xs holds a catalog glyph with a space right before or
\* right after it: an occurrence the edge-only mode pads.
C4_Edge(xs, p) ==
    /\ \E g \in 1..Len(puncts) : puncts[g] = xs[p]
    /\ ~C4_NoSpaceAround(xs, p)

\* C4: PunctSpacer(edge_only=True) leaves an interior occurrence of a catalog
\* glyph untouched: a glyph with no space before or after it in the argument
\* gets no space of its own in the value returned; a space stands next to it
\* only where its neighbour in the argument is a glyph that a space adjoins
\* there and that is padded for it.  (The rules only insert spaces, so the k-th
\* character that is not a space is the same occurrence in both strings.)
C4_InteriorUntouched ==
    pc = "done" =>
        LET a == C4_Marks(arg)
            o == C4_Marks(out)
        IN  /\ Len(a) = Len(o)
            /\ \A k \in 1..Len(a) :
                   /\ out[o[k]] = arg[a[k]]
                   /\ (/\ \E g \in 1..Len(puncts) : puncts[g] = arg[a[k]]
                       /\ C4_NoSpaceAround(arg, a[k]))
                      => /\ (o[k] > 1 /\ out[o[k] - 1] = 32)
                                => (a[k] > 1 /\ C4_Edge(arg, a[k] - 1))
                         /\ (o[k] < Len(out) /\ out[o[k] + 1] = 32)
                                => (a[k] < Len(arg) /\ C4_Edge(arg, a[k] + 1))

\* C10: MisspellReplacer applied to one of its keys alone returns the table's
\* replacement for that key.
C10_KeyToReplacement ==
    pc = "done" =>
        \E j \in 1..Len(MisspellRule) :
            MisspellRule[j].key = arg /\ out = MisspellRule[j].value

\* "she'll've", in which the earlier key "he'll" occurs, came out as
\* "she will have".
C10_Witness ==
    /\ pc = "done"
    /\ arg = <<115, 104, 101, 39, 108, 108, 39, 118, 101>>
    /\ out = <<115, 104, 101, 32, 119, 105, 108, 108, 32, 104, 97, 118, 101>>

--------------------------------------------------------------------------------
(* Claims about RegExpReplacer and NumberReplacer. *)

\* Whether the scan of the alternation over xs looks for a match at position p:
\* it does at 1, after a match, and one character after a position without one.
C2_Scanned(r, xs) ==
    LET at[p \in 1..Len(xs)] ==
            \/ p = 1
            \/ \E q \in 1..(p - 1) :
                   /\ at[q]
                   /\ p = q + (IF AltMatchAt(r, xs, q) > 0
                               THEN AltMatchAt(r, xs, q) ELSE 1)
    IN  {p \in 1..Len(xs) : at[p]}

\* What a match m is replaced by: the value of the key equal to m when there is
\* one, else m after every rule's substitution in declaration order.
C2_Resolve(r, m) ==
    LET f[j \in 0..Len(r)] ==
            IF j = 0 THEN m ELSE ReSub(r[j].key, r[j].value, f[j - 1])
    IN  IF \E j \in 1..Len(r) : r[j].key = m
        THEN r[CHOOSE j \in 1..Len(r) : r[j].key = m].value
        ELSE f[Len(r)]

\* The value the claim gives for RegExpReplacer(r)(xs), position by position.
C2_Expected(r, xs) ==
    LET S == C2_Scanned(r, xs)
        piece(p) ==
            IF p \notin S THEN <<>>
            ELSE IF AltMatchAt(r, xs, p) > 0
                 THEN C2_Resolve(r, SubSeq(xs, p, p + AltMatchAt(r, xs, p) - 1))
                 ELSE <<xs[p]>>
        cat[p \in 0..Len(xs)] == IF p = 0 THEN <<>> ELSE cat[p - 1] \o piece(p)
    IN  cat[Len(xs)]

\* C2: RegExpReplacer replaces every match span of the one scan by the value of
\* the key equal to the matched text or, when no key equals it, by the matched
\* text after every rule's substitution in declaration order; the text outside
\* the spans stays and the text produced is not scanned again.
C2_MatchResolution ==
    (cls = "RegExpReplacer" /\ pc = "done") => out = C2_Expected(rule, arg)

\* Under {'[0-9]{3}': '12', '[0-9]{2}': 'a'} the match '111' of the first
\* alternative came out as 'a': the second rule rewrote what the first produced.
C2_Witness ==
    /\ cls = "RegExpReplacer"
    /\ pc = "done"
    /\ rule = << R(Counted(3, FALSE), <<49, 50>>), R(Counted(2, FALSE), <<97>>) >>
    /\ arg = <<49, 49, 49>>
    /\ out = <<97>>

\* The number of digits of xs from position p on.
C5_Run(xs, p) ==
    Cardinality({q \in p..Len(xs) : \A j \in p..q : xs[j] \in 48..57})

\* What NumberReplacer makes of xs: each maximal run of n digits becomes
\* min(n, 5) '#' (between ' __' and '__ ' in underscore mode) when n >= 2, and
\* everything else stays.
C5_Expected(xs, with_underscore) ==
    LET wrap(h) == IF with_underscore
                   THEN <<32, 95, 95>> \o h \o <<95, 95, 32>> ELSE h
        starts(p) == C5_Run(xs, p) > 0 /\ (p = 1 \/ C5_Run(xs, p - 1) = 0)
        piece(p) ==
            IF C5_Run(xs, p) = 0 THEN <<xs[p]>>
            ELSE IF ~starts(p) THEN <<>>
            ELSE IF C5_Run(xs, p) = 1 THEN <<xs[p]>>
            ELSE wrap([h \in 1..(IF C5_Run(xs, p) >= 5 THEN 5 ELSE C5_Run(xs, p))
                          |-> 35])
        cat[p \in 0..Len(xs)] == IF p = 0 THEN <<>> ELSE cat[p - 1] \o piece(p)
    IN  cat[Len(xs)]

\* C5: NumberReplacer rewrites every maximal run of n digits to n '#' for n in
\* 2..4 and to '#####' for n >= 5, wrapped as ' __' + hashes + '__ ' in
\* underscore mode, and leaves every other character, a single digit included.
C5_DigitRuns ==
    \A u \in BOOLEAN :
        (cls = "RegExpReplacer" /\ pc = "done" /\ rule = NumberReplacer(u))
            => out = C5_Expected(arg, u)

\* In underscore mode '212121' came out as ' __#####__ '.
C5_Witness ==
    /\ pc = "done"
    /\ rule = NumberReplacer(TRUE)
    /\ arg = <<50, 49, 50, 49, 50, 49>>
    /\ out = <<32, 95, 95, 35, 35, 35, 35, 35, 95, 95, 32>>

--------------------------------------------------------------------------------
(* Claims about unidecode_weak and Cache. *)

\* unidecode_weak(s) run from the empty Cache.
ColdRun(s) == unidecode_weak(<<>>, <<>>, modules, s)

\* Whether the character is one whose section is looked up in Cache.
InRange(char) == char >= 128 /\ char <= 983039

\* C3: with tables of ASCII entries, '[?]' among them, the string unidecode_weak
\* returns is ASCII-only: every character of it is below 0x80.
C3_AsciiOnly ==
    (cls = "none" /\ pc = "done") => \A k \in 1..Len(retval) : retval[k] < 128

\* The characters of s whose section has no module.
C6_Unloadable(s) ==
    {k \in 1..Len(s) : InRange(s[k]) /\ ImportFails(modules, Section(s[k]))}

\* s without these characters.
C6_Remaining(s) ==
    SelectSeq(s, LAMBDA ch : ~(InRange(ch) /\ ImportFails(modules, Section(ch))))

\* C6: a table that fails to load raises no error; None is stored for the
\* section, the character is dropped and the call goes on with the others (it
\* returns what it returns for the string without the characters of such
\* sections), and no section is ever imported a second time.
C6_LoadFailureCached ==
    /\ raised = FALSE
    /\ \A s \in DOMAIN loads : loads[s] <= 1
    /\ \A s \in DOMAIN Cache : ImportFails(modules, s) => Cache[s] = None
    /\ (cls = "none" /\ pc = "done") =>
           /\ \A k \in C6_Unloadable(string) :
                  Section(string[k]) \in DOMAIN Cache
           /\ retval = ColdRun(C6_Remaining(string)).retval

\* A call on U+5317 'A', the section x053 without a module, has returned 'A'
\* with None stored for x053 after one import.
C6_Witness ==
    /\ pc = "done"
    /\ modules[83] = "missing"
    /\ string = <<21271, 65>>
    /\ retval = <<65>>
    /\ Cache[83] = None
    /\ loads[83] = 1

\* C7: a call returns what the same call returns from the empty Cache, whatever
\* the Cache the earlier calls left.
C7_SameColdOrWarm ==
    (cls = "none" /\ pc = "done") => retval = ColdRun(string).retval

\* A call on one character has returned a non-empty string while Cache holds
\* both sections: an earlier call left at least one of them.
C7_Witness ==
    /\ pc = "done"
    /\ DOMAIN Cache = Sections
    /\ Len(string) = 1
    /\ InRange(string[1])
    /\ retval # <<>>

\* Both callers have returned.
AllReturned == \A c \in Callers : calls[c].at = "done"

\* C8: with two callers interleaved on the one Cache, every value stored for a
\* section is the one value the resources give it, and once both have returned
\* Cache is the Cache of the two calls run one after the other and each caller
\* has the output of its call run alone.
C8_BenignRace ==
    /\ \A s \in DOMAIN Cache :
           Cache[s] = IF ImportFails(modules, s) THEN None ELSE Table(s)
    /\ (calls # <<>> /\ AllReturned) =>
           /\ Cache = unidecode_weak(ColdRun(calls[1].string).Cache, <<>>,
                                     modules, calls[2].string).Cache
           /\ \A c \in Callers :
                  calls[c].retval = ColdRun(calls[c].string).retval

\* Both callers have returned 'Bei ' after each imported x053 itself.
C8_Witness ==
    /\ calls # <<>>
    /\ AllReturned
    /\ 83 \in DOMAIN loads
    /\ loads[83] = 2
    /\ \A c \in Callers : calls[c].retval = <<66, 101, 105, 32>>

\* C9: Cache starts empty and only grows: a step adds entries only for the
\* sections of the characters in 0x80..0xeffff of the string it processes (all
\* of them), and never removes or changes an entry.
C9_CacheGrowsOnly ==
    /\ Cache = <<>>
    /\ [][/\ \A s \in DOMAIN Cache : s \in DOMAIN Cache' /\ Cache'[s] = Cache[s]
          /\ DOMAIN Cache' =
                 DOMAIN Cache \cup
                     {Section(string'[k]) :
                          k \in {h \in 1..Len(string') : InRange(string'[h])}}
         ]_vars

\* A call on 'A' U+F0000 has returned with both sections still in Cache, one
\* as a table and one as None.
C9_Witness ==
    /\ pc = "done"
    /\ string = <<65, 983040>>
    /\ DOMAIN Cache = Sections
    /\ Cache[83] = Table(83)
    /\ Cache[3839] = None

====
